---- MODULE Spec2Model ----
(***************************************************************************)
(* TIBCO Developer Assistant (Streamlit front-end over a Groq chat        *)
(* completion client).                                                     *)
(*                                                                         *)
(* Three specifications share this module:                                 *)
(*   Spec        the page re-execution of app.py: main(), the five tab     *)
(*               handlers and the GroqClient operations they call;         *)
(*   SpecDecode  the upload decoding (utf-8, then latin-1) on byte         *)
(*               sequences;                                                *)
(*   SpecFormat  the formatters of utils/formatters.py on texts.           *)
(*                                                                         *)
(* A text (Python str) is a sequence of code points (naturals); a bytes    *)
(* object is a sequence of 0..255.                                         *)
(***************************************************************************)
EXTENDS Integers, Sequences, FiniteSets, TLC

VARIABLES
    api_key,    \* value of the sidebar "Groq API Key" field in this re-execution
    cache,      \* st.cache_resource of get_groq_client: the credentials that have a client
    built,      \* number of GroqClient constructions so far
    selected_model, \* value of the sidebar "Select AI Model" box
    pc,         \* position of the script: 0 between re-executions, else the tab to run next
    buttons,    \* the buttons rendered so far by the latest re-execution
    clicked,    \* the button whose click triggered this re-execution ("none": another widget)
    screen,     \* the elements displayed by this re-execution, in order
    calls,      \* the GroqClient operations invoked in this re-execution, in order
    handled,    \* the inputs of the action handlers whose button read as clicked
    dec_pc,     \* SpecDecode: "input", "done"
    dec_bytes,  \* SpecDecode: the uploaded bytes
    dec_out,    \* SpecDecode: the outcome of the upload branch
    fmt_pc,     \* SpecFormat: "input", "applied"
    fmt_which,  \* SpecFormat: the formatter applied
    fmt_hist    \* SpecFormat: the text, followed by the result of each application

uiVars ==
    <<api_key, cache, built, selected_model, pc, buttons, clicked, screen, calls, handled>>
decVars == <<dec_pc, dec_bytes, dec_out>>
fmtVars == <<fmt_pc, fmt_which, fmt_hist>>
vars == <<uiVars, decVars, fmtVars>>

(***************************************************************************)
(* Texts                                                                   *)
(***************************************************************************)

\* ord() of the characters the model writes as literals.
CharCode ==
    ("\n" :> 10) @@ (" " :> 32) @@ ("#" :> 35) @@ ("*" :> 42) @@ ("." :> 46)
    @@ ("/" :> 47) @@ ("0" :> 48) @@ ("1" :> 49) @@ ("5" :> 53) @@ (":" :> 58)
    @@ ("<" :> 60) @@ (">" :> 62) @@ ("_" :> 95)
    @@ ("A" :> 65) @@ ("C" :> 67) @@ ("D" :> 68) @@ ("E" :> 69) @@ ("G" :> 71) @@ ("H" :> 72)
    @@ ("I" :> 73) @@ ("K" :> 75) @@ ("L" :> 76) @@ ("M" :> 77) @@ ("N" :> 78)
    @@ ("O" :> 79) @@ ("P" :> 80) @@ ("R" :> 82)
    @@ ("T" :> 84) @@ ("U" :> 85) @@ ("W" :> 87) @@ ("X" :> 88)
    @@ ("a" :> 97) @@ ("b" :> 98) @@ ("c" :> 99) @@ ("d" :> 100) @@ ("e" :> 101) @@ ("f" :> 102)
    @@ ("g" :> 103)
    @@ ("h" :> 104) @@ ("i" :> 105) @@ ("k" :> 107) @@ ("l" :> 108) @@ ("m" :> 109)
    @@ ("n" :> 110) @@ ("o" :> 111)
    @@ ("p" :> 112) @@ ("r" :> 114) @@ ("s" :> 115) @@ ("t" :> 116) @@ ("u" :> 117)
    @@ ("w" :> 119) @@ ("x" :> 120) @@ ("y" :> 121)

\* The text whose characters are the one-character strings of cs.
Str(cs) == [i \in 1..Len(cs) |-> CharCode[cs[i]]]

Ch(c) == CharCode[c]

\* The text of one grave accent (the markdown code mark), chr(96).
Tick == <<96>>

RECURSIVE Concat(_)
\* The concatenation of a sequence of texts.
Concat(ts) == IF ts = <<>> THEN <<>> ELSE Head(ts) \o Concat(Tail(ts))

\* s[from..] as Python slices it.
Drop(s, n) == SubSeq(s, n + 1, Len(s))

\* str.isspace() of one character: what str.strip() removes and what \s matches.
IsSpace(c) ==
    \/ c \in 9..13
    \/ c \in 28..32
    \/ c \in {133, 160, 5760, 8232, 8233, 8239, 8287, 12288}
    \/ c \in 8192..8202

\* What \d matches among the characters below 256.
IsDigit(c) == c \in 48..57

\* What \w matches among the characters below 256: alphanumerics and "_".
IsWord(c) ==
    \/ c \in 48..57
    \/ c \in 65..90
    \/ c = 95
    \/ c \in 97..122
    \/ c \in {170, 178, 179, 181, 185, 186, 188, 189, 190}
    \/ c \in 192..214
    \/ c \in 216..246
    \/ c \in 248..255

\* str.lower() of one ASCII character, as re.IGNORECASE compares the literals.
Lower(c) == IF c \in 65..90 THEN c + 32 ELSE c

RECURSIVE LStrip(_)
LStrip(s) == IF s # <<>> /\ IsSpace(Head(s)) THEN LStrip(Tail(s)) ELSE s

RECURSIVE RStrip(_)
RStrip(s) ==
    IF s # <<>> /\ IsSpace(s[Len(s)]) THEN RStrip(SubSeq(s, 1, Len(s) - 1)) ELSE s

\* str.strip()
strip(s) == RStrip(LStrip(s))

\* A Python value that is a str or None.
None == [some |-> FALSE, text |-> <<>>]
Some(t) == [some |-> TRUE, text |-> t]

\* bool(v) of a str-or-None value: None and "" are falsy.
Truthy(v) == v.some /\ v.text # <<>>

(***************************************************************************)
(* Upload decoding: bytes.decode(utf-8), then bytes.decode(latin-1)        *)
(***************************************************************************)

IsCont(b) == b \in 128..191

\* The length of the UTF-8 sequence that starts at b[i], 0 when the bytes at i
\* are no well-formed sequence (strict decoding: no overlong forms, no
\* surrogates, nothing above U+10FFFF).
Utf8SeqLen(b, i) ==
    LET n == Len(b)
        b0 == b[i]
        c(k) == i + k <= n /\ IsCont(b[i + k])
        in2(k, lo, hi) == i + k <= n /\ b[i + k] \in lo..hi
    IN  IF b0 <= 127 THEN 1
        ELSE IF b0 \in 194..223 THEN (IF c(1) THEN 2 ELSE 0)
        ELSE IF b0 = 224 THEN (IF in2(1, 160, 191) /\ c(2) THEN 3 ELSE 0)
        ELSE IF b0 \in 225..236 \cup 238..239 THEN (IF c(1) /\ c(2) THEN 3 ELSE 0)
        ELSE IF b0 = 237 THEN (IF in2(1, 128, 159) /\ c(2) THEN 3 ELSE 0)
        ELSE IF b0 = 240 THEN (IF in2(1, 144, 191) /\ c(2) /\ c(3) THEN 4 ELSE 0)
        ELSE IF b0 \in 241..243 THEN (IF c(1) /\ c(2) /\ c(3) THEN 4 ELSE 0)
        ELSE IF b0 = 244 THEN (IF in2(1, 128, 143) /\ c(2) /\ c(3) THEN 4 ELSE 0)
        ELSE 0

\* The code point of the well-formed sequence of k bytes at b[i].
Utf8CodePoint(b, i, k) ==
    IF k = 1 THEN b[i]
    ELSE IF k = 2 THEN (b[i] % 32) * 64 + (b[i + 1] % 64)
    ELSE IF k = 3 THEN (b[i] % 16) * 4096 + (b[i + 1] % 64) * 64 + (b[i + 2] % 64)
    ELSE (b[i] % 8) * 262144 + (b[i + 1] % 64) * 4096 + (b[i + 2] % 64) * 64
         + (b[i + 3] % 64)

RECURSIVE Utf8From(_, _)

\* The character cp put before the decoding of the bytes that follow it.
Utf8Cons(cp, rest) ==
    IF rest.ok THEN [ok |-> TRUE, text |-> <<cp>> \o rest.text] ELSE rest

\* The sequence of k bytes at b[i] (k = 0: ill-formed), then the rest.
Utf8Step(b, i, k) ==
    IF k = 0 THEN [ok |-> FALSE, text |-> <<>>]
    ELSE Utf8Cons(Utf8CodePoint(b, i, k), Utf8From(b, i + k))

\* b[i..] decoded: [ok, text]; ok is FALSE where Python raises UnicodeDecodeError.
Utf8From(b, i) ==
    IF i > Len(b) THEN [ok |-> TRUE, text |-> <<>>]
    ELSE Utf8Step(b, i, Utf8SeqLen(b, i))

\* file_content.decode(utf-8)
decode_utf8(b) == Utf8From(b, 1)

\* Faulty variant of decode_latin1: ascii in place of latin-1, which raises on
\* every byte above 127.
decode_ascii(b) ==
    IF \A i \in 1..Len(b) : b[i] <= 127
    THEN [ok |-> TRUE, text |-> b]
    ELSE [ok |-> FALSE, text |-> <<>>]

\* file_content.decode(latin-1): byte n is the character U+00n, for every byte.
decode_latin1(b) == [ok |-> TRUE, text |-> [i \in 1..Len(b) |-> b[i]]]

\* The outcome of the upload branch of a tab, from read() to the except clause:
\*   raised     an exception reached "except Exception" (code_input is then "");
\*   fallback   the UnicodeDecodeError handler ran;
\*   error      st.error("Error reading file: ...") was shown.
Decoded(r, fallback) ==
    IF r.ok
    THEN [raised |-> FALSE, code_input |-> r.text, fallback |-> fallback, error |-> FALSE]
    ELSE [raised |-> TRUE, code_input |-> <<>>, fallback |-> fallback, error |-> TRUE]

\* Faulty variant of decode_upload: latin-1 tried first, so utf-8 is never used.
decode_upload_latin1_first(b) == Decoded(decode_latin1(b), TRUE)

\* try: code_input = file_content.decode(utf-8)
\* except UnicodeDecodeError: code_input = file_content.decode(latin-1)
decode_upload(b) ==
    IF decode_utf8(b).ok THEN Decoded(decode_utf8(b), FALSE)
    ELSE Decoded(decode_latin1(b), TRUE)

(***************************************************************************)
(* Regular expressions of utils/formatters.py                              *)
(*                                                                         *)
(* A matcher M(s, p) tries its pattern at position p of s (1-based) as     *)
(* the backtracking engine of re does, and answers [stop, repl]: stop is   *)
(* the position after the match (0: no match at p) and repl the expanded   *)
(* replacement.  Every pattern here matches at least one character.        *)
(***************************************************************************)

NoMatch == [stop |-> 0, repl |-> <<>>]

IsNewline(c) == c = Ch("\n")
IsHash(c) == c = Ch("#")

\* The character classes of the patterns: \s, \d, \w, the two literal characters
\* that are repeated, and "." (any character but a newline).
InClass(class, c) ==
    CASE class = "space" -> IsSpace(c)
      [] class = "digit" -> IsDigit(c)
      [] class = "word" -> IsWord(c)
      [] class = "hash" -> IsHash(c)
      [] class = "newline" -> IsNewline(c)
      [] class = "any" -> ~IsNewline(c)

\* The length of the longest run of characters of the class that starts at s[p].
Run(class, s, p) ==
    IF p > Len(s) THEN 0
    ELSE Cardinality({q \in p..Len(s) : \A i \in p..q : InClass(class, s[i])})

\* The character at s[p] exists and is c.
CharAt(s, p, c) == p <= Len(s) /\ s[p] = Ch(c)

\* The literal lit stands at s[p]; ic: under re.IGNORECASE.
LitAt(s, p, lit, ic) ==
    /\ p + Len(lit) - 1 <= Len(s)
    /\ \A i \in 1..Len(lit) :
          IF ic THEN Lower(s[p + i - 1]) = Lower(lit[i]) ELSE s[p + i - 1] = lit[i]

\* ^ under re.MULTILINE: the start of the text, or right after a newline.
AtLineStart(s, p) == p = 1 \/ IsNewline(s[p - 1])

\* The position of the end of the line that holds s[p]: where (.+)$ stops.
LineEnd(s, p) == p + Run("any", s, p)

\* \b: exactly one of the characters before and after p is a word character.
AtWordBoundary(s, p) ==
    (p > 1 /\ IsWord(s[p - 1])) # (p <= Len(s) /\ IsWord(s[p]))

\* The least element of a set of numbers.
Min(S) == CHOOSE x \in S : \A o \in S : x <= o

\* The ways r'^(#{1,3})\s*' can end before a character that (.+) accepts:
\* <<k, w>> for k marks and w whitespace characters.
HeaderSplits(s, p, hashes) ==
    {kw \in (1..(IF hashes > 3 THEN 3 ELSE hashes)) \X (0..Len(s)) :
        /\ kw[2] <= Run("space", s, p + kw[1])
        /\ p + kw[1] + kw[2] <= Len(s)
        /\ ~IsNewline(s[p + kw[1] + kw[2]])}

\* The split the engine reaches first: #{1,3} and \s* are greedy and give
\* characters back, the longest first.
FirstSplit(splits) ==
    CHOOSE kw \in splits : \A o \in splits :
        o[1] < kw[1] \/ (o[1] = kw[1] /\ o[2] <= kw[2])

\* The match whose group 2 starts at s[g2]: (.+)$ runs to the end of the line.
HeaderMatch(s, g2) ==
    [stop |-> LineEnd(s, g2),
     repl |-> Str(<<"*", "*">>) \o SubSeq(s, g2, LineEnd(s, g2) - 1) \o Str(<<"*", "*">>)]

HeaderOf(s, p, splits) ==
    IF splits = {} THEN NoMatch
    ELSE HeaderMatch(s, p + FirstSplit(splits)[1] + FirstSplit(splits)[2])

\* r'^(#{1,3})\s*(.+)$' with re.MULTILINE, replaced by r'**\2**'.  \s also matches
\* newlines.
MatchHeader(s, p) ==
    IF AtLineStart(s, p) /\ p <= Len(s) /\ IsHash(s[p])
    THEN HeaderOf(s, p, HeaderSplits(s, p, Run("hash", s, p)))
    ELSE NoMatch

\* The match of r'^(\d+\.)\s*\*\*(.+?)\*\*' that began at s[p], with the "." at
\* s[dot] and group 2 the n characters from s[g2].
NumberedMatch(s, p, dot, g2, n) ==
    [stop |-> g2 + n + 2,
     repl |-> Str(<<"#", "#", "#", " ">>) \o SubSeq(s, p, dot) \o Str(<<" ">>)
              \o SubSeq(s, g2, g2 + n - 1)]

\* The lengths (.+?) can take at s[g2]: one or more characters, none a newline,
\* followed by "**".
BoldLengths(s, g2) ==
    {n \in 1..Len(s) :
        /\ g2 + n + 1 <= Len(s)
        /\ \A i \in g2..(g2 + n - 1) : ~IsNewline(s[i])
        /\ LitAt(s, g2 + n, Str(<<"*", "*">>), FALSE)}

\* (.+?) is lazy: the shortest length.
NumberedGroup(s, p, dot, g2, lens) ==
    IF lens = {} THEN NoMatch ELSE NumberedMatch(s, p, dot, g2, Min(lens))

NumberedBold(s, p, dot, stars) ==
    IF LitAt(s, stars, Str(<<"*", "*">>), FALSE)
    THEN NumberedGroup(s, p, dot, stars + 2, BoldLengths(s, stars + 2))
    ELSE NoMatch

NumberedDot(s, p, dot) ==
    IF CharAt(s, dot, ".")
    THEN NumberedBold(s, p, dot, dot + 1 + Run("space", s, dot + 1))
    ELSE NoMatch

\* r'^(\d+\.)\s*\*\*(.+?)\*\*' with re.MULTILINE, replaced by r'### \1 \2'.  \d+
\* and \s* take their whole runs: a shorter one would be followed by a digit or by
\* whitespace, not by "." or "*".
MatchNumbered(s, p) ==
    IF AtLineStart(s, p) /\ p <= Len(s) /\ IsDigit(s[p])
    THEN NumberedDot(s, p, p + Run("digit", s, p))
    ELSE NoMatch

\* The optional groups (?:\.\d+)? and (?:/\d+)? after the digits that end at e:
\* the position after "<mark><digits>" when it stands at s[e], else e.
AfterOptionalNumber(s, e, mark) ==
    IF CharAt(s, e, mark) /\ Run("digit", s, e + 1) >= 1
    THEN e + 1 + Run("digit", s, e + 1)
    ELSE e

\* \s*\d+(?:\.\d+)?(?:/\d+)? at s[gap], for a match that began at s[p].
ScoreNumber(s, p, gap) ==
    IF Run("digit", s, gap + Run("space", s, gap)) >= 1
    THEN [stop |-> AfterOptionalNumber(s,
                       AfterOptionalNumber(s,
                           gap + Run("space", s, gap)
                           + Run("digit", s, gap + Run("space", s, gap)), "."), "/"),
          repl |-> Tick
                   \o SubSeq(s, p,
                          AfterOptionalNumber(s,
                              AfterOptionalNumber(s,
                                  gap + Run("space", s, gap)
                                  + Run("digit", s, gap + Run("space", s, gap)), "."),
                              "/") - 1)
                   \o Tick]
    ELSE NoMatch

\* score:? at s[lit], for a match that began at s[p].
ScoreLiteral(s, p, lit) ==
    IF LitAt(s, lit, Str(<<"s", "c", "o", "r", "e">>), TRUE)
    THEN ScoreNumber(s, p, IF CharAt(s, lit + 5, ":") THEN lit + 6 ELSE lit + 5)
    ELSE NoMatch

\* r'(\w+\s+score:?\s*\d+(?:\.\d+)?(?:/\d+)?)' with re.IGNORECASE, replaced by the
\* match between two grave accents.  \w+ and \s+ take their whole runs: a shorter
\* \w+ would be followed by a word character, not by \s.
MatchScore(s, p) ==
    IF Run("word", s, p) >= 1 /\ Run("space", s, p + Run("word", s, p)) >= 1
    THEN ScoreLiteral(s, p,
             p + Run("word", s, p) + Run("space", s, p + Run("word", s, p)))
    ELSE NoMatch

\* The alternatives of a group, in the order the pattern tries them.
Levels == <<Str(<<"l", "o", "w">>), Str(<<"m", "e", "d", "i", "u", "m">>),
            Str(<<"h", "i", "g", "h">>)>>
RiskLevels == <<Str(<<"L", "O", "W">>), Str(<<"M", "E", "D", "I", "U", "M">>),
                Str(<<"H", "I", "G", "H">>),
                Str(<<"C", "R", "I", "T", "I", "C", "A", "L">>)>>

\* The alternatives of alts that stand at s[at].
AlternativesAt(s, at, alts, ic) == {a \in 1..Len(alts) : LitAt(s, at, alts[a], ic)}

\* The match from s[p] to the end of the first alternative found at s[lvl].
ComplexityMatch(s, p, lvl, found) ==
    IF found = {} THEN NoMatch
    ELSE [stop |-> lvl + Len(Levels[Min(found)]),
          repl |-> Tick \o SubSeq(s, p, lvl + Len(Levels[Min(found)]) - 1) \o Tick]

ComplexityLevel(s, p, lvl) ==
    ComplexityMatch(s, p, lvl, AlternativesAt(s, lvl, Levels, TRUE))

ComplexityGap(s, p, gap) == ComplexityLevel(s, p, gap + Run("space", s, gap))

\* r'(complexity:?\s*(?:low|medium|high))' with re.IGNORECASE, replaced by the
\* match between two grave accents.
MatchComplexity(s, p) ==
    IF LitAt(s, p, Str(<<"c", "o", "m", "p", "l", "e", "x", "i", "t", "y">>), TRUE)
    THEN ComplexityGap(s, p, IF CharAt(s, p + 10, ":") THEN p + 11 ELSE p + 10)
    ELSE NoMatch

\* The alternatives of the risk pattern at s[p] that end at a word boundary.
RisksAt(s, p) ==
    {a \in AlternativesAt(s, p, RiskLevels, FALSE) :
        AtWordBoundary(s, p + Len(RiskLevels[a]))}

RiskMatch(p, found) ==
    IF found = {} THEN NoMatch
    ELSE [stop |-> p + Len(RiskLevels[Min(found)]),
          repl |-> Str(<<"*", "*">>) \o RiskLevels[Min(found)] \o Str(<<"*", "*">>)]

\* r'\b(LOW|MEDIUM|HIGH|CRITICAL)\b', case-sensitive, replaced by r'**\1**'.
MatchRisk(s, p) ==
    IF p <= Len(s) /\ AtWordBoundary(s, p) THEN RiskMatch(p, RisksAt(s, p))
    ELSE NoMatch

\* Faulty variant of MatchBlankLines: r'\n\n\n' without the "+", so that a run
\* is consumed three newlines at a time.
MatchBlankLinesFixed(s, p) ==
    IF p <= Len(s) /\ Run("newline", s, p) >= 3
    THEN [stop |-> p + 3, repl |-> Str(<<"\n", "\n">>)]
    ELSE NoMatch

\* r'\n\n\n+' replaced by '\n\n': a whole run of three or more newlines.
MatchBlankLines(s, p) ==
    IF p <= Len(s) /\ Run("newline", s, p) >= 3
    THEN [stop |-> p + Run("newline", s, p), repl |-> Str(<<"\n", "\n">>)]
    ELSE NoMatch

\* The six patterns of the module, by the comment that introduces each.
Match(pattern, s, p) ==
    CASE pattern = "headers" -> MatchHeader(s, p)
      [] pattern = "numbered sections" -> MatchNumbered(s, p)
      [] pattern = "scores" -> MatchScore(s, p)
      [] pattern = "complexity" -> MatchComplexity(s, p)
      [] pattern = "risk levels" -> MatchRisk(s, p)
      [] pattern = "spacing" -> MatchBlankLines(s, p)

\* re.sub(pattern, repl, s): the matches are found from left to right, do not
\* overlap, and the search resumes after each match.
ReSub(pattern, s) ==
    LET from[p \in 1..(Len(s) + 1)] ==
            IF p > Len(s) THEN <<>>
            ELSE IF Match(pattern, s, p).stop > 0
            THEN Match(pattern, s, p).repl \o from[Match(pattern, s, p).stop]
            ELSE <<s[p]>> \o from[p + 1]
    IN  from[1]

(***************************************************************************)
(* utils/formatters.py                                                     *)
(***************************************************************************)

\* "No test cases generated." and "No analysis results generated.", which no
\* claim looks into, are kept apart by their first word only.
NoTestCases == Str(<<"N", "o", " ", "t", "e", "s", "t">>)
NoAnalysis == Str(<<"N", "o", " ", "a", "n", "a", "l", "y", "s", "i", "s">>)

format_test_cases(raw_output) ==
    IF raw_output = <<>> THEN NoTestCases
    ELSE ReSub("spacing",
           ReSub("numbered sections",
             ReSub("headers", raw_output)))

format_complexity_analysis(raw_output) ==
    IF raw_output = <<>> THEN NoAnalysis
    ELSE ReSub("spacing",
           ReSub("risk levels",
             ReSub("complexity",
               ReSub("scores",
                 ReSub("numbered sections",
                   ReSub("headers", raw_output))))))

(***************************************************************************)
(* utils/groq_client.py                                                    *)
(*                                                                         *)
(* The completion service is the environment.  A response is               *)
(*   [raises, choices]: raises, the request raised (authentication,        *)
(*   network, quota ...); otherwise choices is response.choices, each      *)
(*   choice given by its message.content, a str or None (the SDK types     *)
(*   the field Optional[str]).                                             *)
(* An operation answers [requests, result, error, raised]: the requests    *)
(* it sent, the value it returned, whether it called st.error, and         *)
(* whether an exception left it (result is then None).                     *)
(***************************************************************************)

OK == Str(<<"O", "K">>)

Contents == {None, Some(<<>>), Some(OK), Some(Str(<<" ", "O", "K", "\n">>)),
             Some(Str(<<"1", ".", "*", "*", "a", "*", "*">>))}

Responses ==
    {[raises |-> TRUE, choices |-> <<>>], [raises |-> FALSE, choices |-> <<>>]}
    \cup {[raises |-> FALSE, choices |-> <<c>>] : c \in Contents}
    \cup {[raises |-> FALSE, choices |-> <<Some(OK), Some(<<>>)>>]}

\* The statements of the try block raise: the request does, or choices[0] does
\* (IndexError on an empty list).
Raises(resp) == resp.raises \/ resp.choices = <<>>

\* Faulty variant of try_completion: the request is sent again after a failure.
try_completion_retry(req, resp) ==
    IF Raises(resp)
    THEN [requests |-> <<req, req>>, result |-> None, error |-> TRUE, raised |-> FALSE]
    ELSE [requests |-> <<req>>, result |-> resp.choices[1], error |-> FALSE,
          raised |-> FALSE]

\* Faulty variant of try_completion: the except clause names the request errors
\* only, so the IndexError of an empty choices list leaves the operation.
try_completion_narrow(req, resp) ==
    IF resp.raises
    THEN [requests |-> <<req>>, result |-> None, error |-> TRUE, raised |-> FALSE]
    ELSE IF resp.choices = <<>>
    THEN [requests |-> <<req>>, result |-> None, error |-> FALSE, raised |-> TRUE]
    ELSE [requests |-> <<req>>, result |-> resp.choices[1], error |-> FALSE,
          raised |-> FALSE]

\* Faulty variant of try_completion: the content is trimmed before it is returned.
try_completion_strip(req, resp) ==
    IF Raises(resp)
    THEN [requests |-> <<req>>, result |-> None, error |-> TRUE, raised |-> FALSE]
    ELSE [requests |-> <<req>>,
          result |-> IF resp.choices[1].some THEN Some(strip(resp.choices[1].text))
                     ELSE None,
          error |-> FALSE, raised |-> FALSE]

\* The try statement that ends each of the five operations:
\*     try:
\*         response = self.client.chat.completions.create(...)
\*         return response.choices[0].message.content
\*     except Exception as e:
\*         st.error(f"Groq API Error: {str(e)}")
\*         return None
try_completion(req, resp) ==
    IF Raises(resp)
    THEN [requests |-> <<req>>, result |-> None, error |-> TRUE, raised |-> FALSE]
    ELSE [requests |-> <<req>>, result |-> resp.choices[1], error |-> FALSE,
          raised |-> FALSE]

\* The text of the template around the interpolated code: the end of the line
\* before it ("TIBCO Code/XML:", "Legacy TIBCO Code/XML:") and the blank line
\* after it.
BeforeCode == Str(<<"C", "o", "d", "e", "/", "X", "M", "L", ":", "\n">>)
AfterCode == Str(<<"\n", "\n">>)

\* Faulty variant of Prompt: the code is cut as the preview is.
Prompt_of_preview(op, code, options) ==
    [template |-> op, code |-> code, options |-> options,
     text |-> BeforeCode
              \o (IF Len(code) > 2000 THEN SubSeq(code, 1, 2000) ELSE code)
              \o AfterCode]

\* Faulty variant of Prompt: the code is trimmed before it is interpolated.
Prompt_trimmed(op, code, options) ==
    [template |-> op, code |-> code, options |-> options,
     text |-> BeforeCode \o strip(code) \o AfterCode]

\* The f-string of an operation: a fixed template with the code and the options
\* interpolated.  template names the fixed text, code and options are the values
\* interpolated, and text is the part of the string that holds the code.  The
\* single-choice inputs interpolated with them (level, format, include flags,
\* migration type) reach nothing but this string and are left out.
Prompt(op, code, options) ==
    [template |-> op, code |-> code, options |-> options,
     text |-> BeforeCode \o code \o AfterCode]

\* Faulty variant of Request: the sampling parameters follow the input (a
\* lower temperature for the small model, an output limit reduced by the length
\* of the code).
Request_by_input(op, code, options, model, tenths, tokens) ==
    [op |-> op, model |-> model,
     temperature |-> IF model = "llama-3.1-8b-instant" THEN tenths - 1 ELSE tenths,
     max_tokens |-> tokens - Len(code),
     prompt |-> Prompt(op, code, options)]

\* temperature is kept in tenths (0.3 is 3).
Request(op, code, options, model, tenths, tokens) ==
    [op |-> op, model |-> model, temperature |-> tenths, max_tokens |-> tokens,
     prompt |-> Prompt(op, code, options)]

generate_test_cases(code, test_types, model, resp) ==
    try_completion(Request("generate_test_cases", code, test_types, model, 3, 4000), resp)

analyze_complexity(code, analysis_types, model, resp) ==
    try_completion(Request("analyze_complexity", code, analysis_types, model, 2, 4000), resp)

optimize_process(code, optimization_areas, model, resp) ==
    try_completion(Request("optimize_process", code, optimization_areas, model, 2, 4000),
                   resp)

generate_documentation(code, doc_types, model, resp) ==
    try_completion(Request("generate_documentation", code, doc_types, model, 3, 4000), resp)

analyze_migration(code, migration_areas, model, resp) ==
    try_completion(Request("analyze_migration", code, migration_areas, model, 2, 4000), resp)

\* The f-string of a chunk helper: the caller's chunk_prompt, a blank line and
\* the requirements.
ChunkPrompt(op, chunk_prompt, options) ==
    [template |-> op, code |-> chunk_prompt, options |-> options,
     text |-> chunk_prompt \o AfterCode]

ChunkRequest(op, chunk_prompt, options, model, tenths, tokens) ==
    [op |-> op, model |-> model, temperature |-> tenths, max_tokens |-> tokens,
     prompt |-> ChunkPrompt(op, chunk_prompt, options)]

\* GroqClient._generate_test_cases_for_chunk
generate_test_cases_for_chunk(chunk_prompt, test_types, model, resp) ==
    try_completion(ChunkRequest("_generate_test_cases_for_chunk", chunk_prompt, test_types,
                                model, 3, 3000), resp)

\* GroqClient._analyze_complexity_for_chunk
analyze_complexity_for_chunk(chunk_prompt, analysis_types, model, resp) ==
    try_completion(ChunkRequest("_analyze_complexity_for_chunk", chunk_prompt,
                                analysis_types, model, 2, 3000), resp)

(***************************************************************************)
(* app.py                                                                  *)
(*                                                                         *)
(* Streamlit runs the script from the top on every interaction.  A         *)
(* re-execution is main (the lines up to get_groq_client) followed by the  *)
(* five tab functions in order.  st.button reads True only for the button  *)
(* whose click triggered the re-execution, and only a button the previous  *)
(* re-execution rendered can be clicked.                                   *)
(***************************************************************************)

Tabs == 1..5

ActionButton(tab) ==
    <<"Generate Test Cases", "Analyze Code Complexity", "Optimize Process",
      "Generate Documentation", "Analyze Migration">>[tab]

\* The two nested "copy" buttons, of tabs 1 and 2.
CopyButton(tab) ==
    <<"Copy Test Cases to Clipboard", "Copy Analysis Results", "", "", "">>[tab]

Operation(tab) ==
    <<"generate_test_cases", "analyze_complexity", "optimize_process",
      "generate_documentation", "analyze_migration">>[tab]

model_options ==
    {"llama-3.3-70b-versatile", "llama-3.1-70b-versatile", "llama-3.1-8b-instant",
     "mixtral-8x7b-32768"}

\* The first two entries of each tab's multiselect.
MultiselectOptions(tab) ==
    << <<"Happy Path Tests", "Edge Cases">>,
       <<"Cyclomatic Complexity", "Dependency Analysis">>,
       <<"Performance Tuning", "Memory Optimization">>,
       <<"Technical Overview", "API Documentation">>,
       <<"API Compatibility", "Configuration Changes">> >>[tab]

\* The selections of a multiselect the model draws from: none, one, two.
Selections(tab) ==
    {<<>>, <<MultiselectOptions(tab)[1]>>, MultiselectOptions(tab)}

Markdown == Str(<<"M", "a", "r", "k", "d", "o", "w", "n">>)

doc_formats ==
    {Markdown, Str(<<"H", "T", "M", "L">>),
     Str(<<"P", "l", "a", "i", "n", " ", "T", "e", "x", "t">>),
     Str(<<"C", "o", "n", "f", "l", "u", "e", "n", "c", "e">>)}

\* The credentials a user enters: none, or one of two keys.
Keys == {"", "key-1", "key-2"}

\* What a user types into the text area.
PasteTexts ==
    {<<>>, Str(<<" ", "\n">>), Str(<<"<", "p", "/", ">">>), Str(<<" ", "x", " ">>)}

\* What a user uploads: one byte that is not UTF-8 and is a no-break space in
\* latin-1 (SpecDecode draws from all byte sequences).
UploadFiles == {<<160>>}

\* An uploaded file as the script meets it: read() returns the content, or
\* raises (the environment decides).
Uploads ==
    {[raises |-> FALSE, content |-> f] : f \in UploadFiles}
    \cup {[raises |-> TRUE, content |-> <<>>]}

\* An element the script displays: which tab, what kind, and its text.
El(tab, kind, text) == [tab |-> tab, kind |-> kind, text |-> text, name |-> <<>>]

ValidationKinds == {"error_missing_key", "error_empty_input", "error_no_option"}
ErrorKinds == ValidationKinds \cup {"error_api", "error_failed", "error_exception",
                                    "error_read"}

PreviewThreshold == 5000
PreviewLength == 2000

\* code_input[:2000] + "..." if len(code_input) > 2000 else code_input
Preview(code_input) ==
    IF Len(code_input) > PreviewLength
    THEN SubSeq(code_input, 1, PreviewLength) \o Str(<<".", ".", ".">>)
    ELSE code_input

\* file_content = uploaded_file.read(), then the decoding: an exception of read()
\* goes to "except Exception" as one of the decoding would.
read_upload(u) ==
    IF u.raises
    THEN [raised |-> TRUE, code_input |-> <<>>, fallback |-> FALSE, error |-> TRUE]
    ELSE decode_upload(u.content)

\* Faulty variant of show_upload: the except clause shows the error and leaves
\* code_input with a text instead of resetting it.
show_upload_keeping_text(tab, d) ==
    IF d.raised
    THEN [code_input |-> OK, shown |-> <<El(tab, "error_read", <<>>)>>]
    ELSE [code_input |-> d.code_input,
          shown |-> <<El(tab, "info_file_loaded", <<>>),
                      El(tab, "code_preview", d.code_input)>>]

\* What the upload branch displays for the outcome d of decode_upload, and the
\* code_input it leaves.  st.warning is in tabs 1 to 3 only.
show_upload(tab, d) ==
    IF d.raised
    THEN [code_input |-> <<>>, shown |-> <<El(tab, "error_read", <<>>)>>]
    ELSE [code_input |-> d.code_input,
          shown |-> <<El(tab, "info_file_loaded", <<>>)>>
                    \o (IF Len(d.code_input) > PreviewThreshold /\ tab <= 3
                        THEN <<El(tab, "warning_large_file", <<>>)>> ELSE <<>>)
                    \o <<El(tab, "code_preview",
                            IF Len(d.code_input) > PreviewThreshold
                            THEN Preview(d.code_input) ELSE d.code_input)>>]

\* The input column of a tab: the radio, then the text area or the uploader.
\* method is the radio value, pasted the text area value, upload a sequence
\* holding the uploaded bytes (empty: uploaded_file is None).
collect_input(tab, method, pasted, upload) ==
    IF method = "Paste Code" THEN [code_input |-> pasted, shown |-> <<>>]
    ELSE IF upload = <<>> THEN [code_input |-> <<>>, shown |-> <<>>]
    ELSE show_upload(tab, read_upload(upload[1]))

\* Faulty variant of validate: "if not code_input" without strip().
validate_untrimmed(code_input, options) ==
    IF code_input = <<>> THEN "error_empty_input"
    ELSE IF options = <<>> THEN "error_no_option"
    ELSE "ok"

\* Faulty variant of validate: the option check stands before the input check.
validate_options_first(code_input, options) ==
    IF options = <<>> THEN "error_no_option"
    ELSE IF strip(code_input) = <<>> THEN "error_empty_input"
    ELSE "ok"

\* The two checks that open every button branch, each followed by return.
validate(code_input, options) ==
    IF strip(code_input) = <<>> THEN "error_empty_input"
    ELSE IF options = <<>> THEN "error_no_option"
    ELSE "ok"

\* Faulty variant of invoke: the test case tab hands its input to the chunk
\* helper.
invoke_chunked(tab, code_input, options, model, resp) ==
    CASE tab = 1 -> generate_test_cases_for_chunk(code_input, options, model, resp)
      [] tab = 2 -> analyze_complexity(code_input, options, model, resp)
      [] tab = 3 -> optimize_process(code_input, options, model, resp)
      [] tab = 4 -> generate_documentation(code_input, options, model, resp)
      [] tab = 5 -> analyze_migration(code_input, options, model, resp)

\* groq_client.<operation>(code_input, <options>, ..., model) of the tab.
invoke(tab, code_input, options, model, resp) ==
    CASE tab = 1 -> generate_test_cases(code_input, options, model, resp)
      [] tab = 2 -> analyze_complexity(code_input, options, model, resp)
      [] tab = 3 -> optimize_process(code_input, options, model, resp)
      [] tab = 4 -> generate_documentation(code_input, options, model, resp)
      [] tab = 5 -> analyze_migration(code_input, options, model, resp)

\* Faulty variant of file_name: a file extension chosen for the format.
file_name_extension(doc_format) ==
    Str(<<"t", "i", "b", "c", "o", "_", "d", "o", "c", "u", "m", "e", "n", "t", "a",
          "t", "i", "o", "n", ".">>)
    \o (IF doc_format = Str(<<"M", "a", "r", "k", "d", "o", "w", "n">>)
        THEN Str(<<"m", "d">>)
        ELSE IF doc_format = Str(<<"H", "T", "M", "L">>)
        THEN Str(<<"h", "t", "m", "l">>)
        ELSE Str(<<"t", "x", "t">>))

\* "tibco_documentation." + doc_format.lower()
file_name(doc_format) ==
    Str(<<"t", "i", "b", "c", "o", "_", "d", "o", "c", "u", "m", "e", "n", "t", "a",
          "t", "i", "o", "n", ".">>)
    \o [i \in 1..Len(doc_format) |-> Lower(doc_format[i])]

\* Faulty variant of show_result: the text is trimmed before it is displayed.
show_result_trimmed(tab, result, doc_format, was_clicked) ==
    <<El(tab, "success", <<>>)>>
    \o (CASE tab = 1 -> <<El(tab, "markdown", strip(format_test_cases(result)))>>
          [] tab = 2 -> <<El(tab, "markdown", strip(format_complexity_analysis(result)))>>
          [] OTHER -> <<El(tab, "markdown", strip(result))>>)
    \o (IF tab \in {1, 2} THEN <<El(tab, "button_copy", <<>>)>> ELSE <<>>)
    \o (IF tab = 4
        THEN <<[tab |-> tab, kind |-> "download_button", text |-> result,
                name |-> file_name(doc_format)]>>
        ELSE <<>>)

\* What "if <result>:" displays for a truthy result.
show_result(tab, result, doc_format, was_clicked) ==
    <<El(tab, "success", <<>>)>>
    \o (CASE tab = 1 -> <<El(tab, "markdown", format_test_cases(result))>>
          [] tab = 2 -> <<El(tab, "markdown", format_complexity_analysis(result))>>
          [] OTHER -> <<El(tab, "markdown", result)>>)
    \o (IF tab \in {1, 2}
        THEN <<El(tab, "button_copy", <<>>)>>
             \o (IF was_clicked = CopyButton(tab)
                 THEN <<El(tab, "code", result), El(tab, "info_copy", <<>>)>>
                 ELSE <<>>)
        ELSE <<>>)
    \o (IF tab = 4
        THEN <<[tab |-> tab, kind |-> "download_button", text |-> result,
                name |-> file_name(doc_format)]>>
        ELSE <<>>)

\* The try statement of a button branch, for the outcome r of the operation:
\*     try:
\*         result = groq_client.<operation>(...)
\*         if result: st.success(...), st.markdown(...), ...
\*         else: st.error("Failed to ...")
\*     except Exception as e: st.error("Error ...")
\* The st.error of the client (r.error) comes first on the page.
show_outcome(tab, resp, r, doc_format, was_clicked) ==
    [calls |-> <<[op |-> Operation(tab), response |-> resp, requests |-> r.requests,
                  result |-> r.result, error |-> r.error, raised |-> r.raised]>>,
     shown |-> (IF r.error THEN <<El(tab, "error_api", <<>>)>> ELSE <<>>)
               \o (IF r.raised THEN <<El(tab, "error_exception", <<>>)>>
                   ELSE IF Truthy(r.result)
                   THEN show_result(tab, r.result.text, doc_format, was_clicked)
                   ELSE <<El(tab, "error_failed", <<>>)>>)]

\* The branch of "if st.button(<action>):" of a tab: [shown, calls].
handle_click(tab, code_input, options, doc_format, model, resp, was_clicked) ==
    IF validate(code_input, options) # "ok"
    THEN [shown |-> <<El(tab, validate(code_input, options), <<>>)>>, calls |-> <<>>]
    ELSE show_outcome(tab, resp, invoke(tab, code_input, options, model, resp),
                      doc_format, was_clicked)

\* The buttons a tab renders: its action button, and the copy button when a
\* result was displayed.
RenderedButtons(tab, shown) ==
    {ActionButton(tab)}
    \cup (IF \E j \in 1..Len(shown) : shown[j].kind = "button_copy"
          THEN {CopyButton(tab)} ELSE {})

\* The state of the page before the first re-execution.
UIInit ==
    /\ api_key \in Keys
    /\ cache = {}
    /\ built = 0
    /\ selected_model = "llama-3.3-70b-versatile"
    /\ pc = 0
    /\ buttons = {}
    /\ clicked = "none"
    /\ screen = <<>>
    /\ calls = <<>>
    /\ handled = <<>>

DecodeIdle ==
    /\ dec_pc = "input"
    /\ dec_bytes = <<>>
    /\ dec_out = [raised |-> FALSE, code_input |-> <<>>, fallback |-> FALSE,
                  error |-> FALSE]

FormatIdle ==
    /\ fmt_pc = "input"
    /\ fmt_which = "format_test_cases"
    /\ fmt_hist = <<>>

\* Faulty variant of missing_credential: the check is left out, so that the
\* script runs on with an empty credential.
credential_unchecked(key) == FALSE

\* "if not api_key:", the condition under which main() stops.
missing_credential(key) == key = ""

\* Faulty variant of get_groq_client: without st.cache_resource, a client is
\* constructed in every re-execution.
get_groq_client_uncached(key) ==
    /\ cache' = cache \cup {key}
    /\ built' = built + 1

\* get_groq_client(api_key) under st.cache_resource: the arguments are the cache
\* key, GroqClient(api_key) runs on a miss only, and no entry expires (the
\* decorator is given no ttl and no max_entries).  cache holds the credentials
\* that have an instance, built counts the constructions.
get_groq_client(key) ==
    /\ cache' = cache \cup {key}
    /\ built' = IF key \in cache THEN built ELSE built + 1

\* One interaction, and main() up to the first tab.  The interaction is a click on
\* a rendered button, or (btn = "none") an edit of another widget, the credential
\* and the model among them; a click leaves the widget values as they were.
main ==
    /\ pc = 0
    /\ \E btn \in buttons \cup {"none"} :
       \E key \in (IF btn = "none" THEN Keys ELSE {api_key}) :
       \E m \in (IF btn = "none" THEN model_options ELSE {selected_model}) :
          /\ clicked' = btn
          /\ api_key' = key
          /\ selected_model' = m
          /\ calls' = <<>>
          /\ handled' = <<>>
          /\ buttons' = {}
          /\ IF missing_credential(key)
             THEN \* st.sidebar.error, st.error, st.stop()
                  /\ screen' = <<El(0, "error_missing_key", <<>>),
                                 El(0, "error_missing_key", <<>>)>>
                  /\ pc' = 0
                  /\ UNCHANGED <<cache, built>>
             ELSE /\ screen' = <<>>
                  /\ pc' = 1
                  /\ get_groq_client(key)
    /\ UNCHANGED <<decVars, fmtVars>>

\* The button branch of a tab has run and displayed h.
Clicked(tab, inp, options, doc_format, h) ==
    /\ screen' = screen \o inp.shown \o h.shown
    /\ calls' = calls \o h.calls
    /\ handled' = Append(handled, [tab |-> tab, code_input |-> inp.code_input,
                                   options |-> options, doc_format |-> doc_format])
    /\ buttons' = buttons \cup RenderedButtons(tab, h.shown)

\* Faulty variant of Column: a result is kept between re-executions (as in
\* st.session_state) and displayed whether or not the button was clicked.
Column_keeping_result(tab, inp) ==
    \/ /\ clicked # ActionButton(tab)
       /\ screen' = screen \o inp.shown \o <<El(tab, "markdown", OK)>>
       /\ buttons' = buttons \cup {ActionButton(tab)}
       /\ UNCHANGED <<calls, handled>>
    \/ /\ clicked = ActionButton(tab)
       /\ \E options \in Selections(tab) :
          \E doc_format \in (IF tab = 4 THEN doc_formats ELSE {Markdown}) :
          \E resp \in Responses :
             Clicked(tab, inp, options, doc_format,
                     handle_click(tab, inp.code_input, options, doc_format,
                                  selected_model, resp, clicked))

\* A tab function after its input column, inp.
Column(tab, inp) ==
    \/ /\ clicked # ActionButton(tab)
       /\ screen' = screen \o inp.shown
       /\ buttons' = buttons \cup {ActionButton(tab)}
       /\ UNCHANGED <<calls, handled>>
    \/ /\ clicked = ActionButton(tab)
       /\ \E options \in Selections(tab) :
          \E doc_format \in (IF tab = 4 THEN doc_formats ELSE {Markdown}) :
          \E resp \in Responses :
             Clicked(tab, inp, options, doc_format,
                     handle_click(tab, inp.code_input, options, doc_format,
                                  selected_model, resp, clicked))

\* One tab function, from its header to its return.
\* Faulty variant of Tab: a validation failure ends the script (as st.stop()
\* would), so the tabs after it are not rendered.
Tab_stopping(tab) ==
    /\ pc = tab
    /\ \E method \in {"Paste Code", "Upload File"} :
       \E pasted \in PasteTexts :
       \E upload \in {<<>>} \cup {<<u>> : u \in Uploads} :
          Column(tab, collect_input(tab, method, pasted, upload))
    /\ pc' = IF \E j \in 1..Len(screen') : /\ screen'[j].tab = tab
                                           /\ screen'[j].kind \in ValidationKinds
             THEN 0
             ELSE IF tab = 5 THEN 0 ELSE tab + 1
    /\ UNCHANGED <<api_key, cache, built, selected_model, clicked, decVars, fmtVars>>

Tab(tab) ==
    /\ pc = tab
    /\ \E method \in {"Paste Code", "Upload File"} :
       \E pasted \in PasteTexts :
       \E upload \in {<<>>} \cup {<<u>> : u \in Uploads} :
          Column(tab, collect_input(tab, method, pasted, upload))
    /\ pc' = IF tab = 5 THEN 0 ELSE tab + 1
    /\ UNCHANGED <<api_key, cache, built, selected_model, clicked, decVars, fmtVars>>

test_case_generator_tab == Tab(1)
complexity_analyzer_tab == Tab(2)
process_optimizer_tab == Tab(3)
documentation_generator_tab == Tab(4)
migration_assistant_tab == Tab(5)

Init == UIInit /\ DecodeIdle /\ FormatIdle

Next ==
    \/ main
    \/ test_case_generator_tab
    \/ complexity_analyzer_tab
    \/ process_optimizer_tab
    \/ documentation_generator_tab
    \/ migration_assistant_tab

Spec == Init /\ [][Next]_vars

(***************************************************************************)
(* SpecDecode: the upload branch applied to byte sequences                 *)
(***************************************************************************)

MaxBytes == 3

\* ASCII, the lead and continuation bytes of two- and three-byte sequences
\* (C3 A9, E2 82 AC, and ED A0 .. of a surrogate), and bytes that start nothing.
ByteSamples == {32, 65, 130, 160, 169, 172, 195, 226, 237, 255}

ByteSeqs == UNION {[1..n -> ByteSamples] : n \in 0..MaxBytes}

UIIdle ==
    /\ api_key = ""
    /\ cache = {}
    /\ built = 0
    /\ selected_model = "llama-3.3-70b-versatile"
    /\ pc = 0
    /\ buttons = {}
    /\ clicked = "none"
    /\ screen = <<>>
    /\ calls = <<>>
    /\ handled = <<>>

InitDecode ==
    /\ dec_pc = "input"
    /\ dec_bytes \in ByteSeqs
    /\ dec_out = [raised |-> FALSE, code_input |-> <<>>, fallback |-> FALSE,
                  error |-> FALSE]
    /\ UIIdle
    /\ FormatIdle

\* "if uploaded_file is not None:" with the bytes read() returns.
upload_branch ==
    /\ dec_pc = "input"
    /\ dec_out' = decode_upload(dec_bytes)
    /\ dec_pc' = "done"
    /\ UNCHANGED <<dec_bytes, uiVars, fmtVars>>

SpecDecode == InitDecode /\ [][upload_branch]_vars

(***************************************************************************)
(* SpecFormat: the formatters applied, and applied again, to texts         *)
(***************************************************************************)

MaxPieces == 4
MaxPiecesAnalysis == 3
MaxApplications == 2

\* The texts are built from these pieces.
TestCasePieces ==
    {Str(<<"#">>), Str(<<" ">>), Str(<<"\n">>), Str(<<"\n", "\n">>), Str(<<"1", ".">>),
     Str(<<"*", "*">>), Str(<<"a">>)}

AnalysisPieces ==
    {Str(<<"#">>), Str(<<" ">>), Str(<<"\n">>), Str(<<"\n", "\n">>),
     Str(<<"a", " ", "s", "c", "o", "r", "e", " ">>), Str(<<"5">>),
     Str(<<"c", "o", "m", "p", "l", "e", "x", "i", "t", "y", ":">>),
     Str(<<"l", "o", "w">>), Str(<<"L", "O", "W">>)}

\* The concatenations of at most n pieces.
Texts(pieces, n) == {Concat(ps) : ps \in UNION {[1..k -> pieces] : k \in 0..n}}

InitFormat ==
    /\ fmt_pc = "input"
    /\ \/ fmt_which = "format_test_cases"
          /\ \E t \in Texts(TestCasePieces, MaxPieces) : fmt_hist = <<t>>
       \/ fmt_which = "format_complexity_analysis"
          /\ \E t \in Texts(AnalysisPieces, MaxPiecesAnalysis) : fmt_hist = <<t>>
    /\ UIIdle
    /\ DecodeIdle

apply_format_test_cases ==
    /\ fmt_which = "format_test_cases"
    /\ Len(fmt_hist) <= MaxApplications
    /\ fmt_hist' = Append(fmt_hist, format_test_cases(fmt_hist[Len(fmt_hist)]))
    /\ fmt_pc' = "applied"
    /\ UNCHANGED <<fmt_which, uiVars, decVars>>

apply_format_complexity_analysis ==
    /\ fmt_which = "format_complexity_analysis"
    /\ Len(fmt_hist) <= MaxApplications
    /\ fmt_hist' = Append(fmt_hist, format_complexity_analysis(fmt_hist[Len(fmt_hist)]))
    /\ fmt_pc' = "applied"
    /\ UNCHANGED <<fmt_which, uiVars, decVars>>

NextFormat == apply_format_test_cases \/ apply_format_complexity_analysis

SpecFormat == InitFormat /\ [][NextFormat]_vars

(***************************************************************************)
(* SpecLargeUpload: the tab functions on uploads around the preview        *)
(* threshold                                                               *)
(***************************************************************************)

\* The uploads run from PreviewThreshold to PreviewThreshold + MaxOver characters.
MaxOver == 1

\* A text of n characters with whitespace at both ends: what decoding gives for
\* an ASCII file of n bytes.
LargeText(n) == Str(<<" ">>) \o [i \in 1..(n - 2) |-> Ch("a")] \o Str(<<"\n">>)

LargeSizes == PreviewThreshold..(PreviewThreshold + MaxOver)

\* The page when main and the tabs before tab t have run with nothing uploaded
\* and nothing clicked; the click, if any, is on the button of tab t.
InitLargeUpload ==
    /\ api_key = "key-1"
    /\ cache = {"key-1"}
    /\ built = 1
    /\ selected_model = "llama-3.3-70b-versatile"
    /\ \E t \in Tabs :
          /\ pc = t
          /\ buttons = {ActionButton(x) : x \in 1..(t - 1)}
          /\ clicked \in {"none", ActionButton(t)}
    /\ screen = <<>>
    /\ calls = <<>>
    /\ handled = <<>>
    /\ DecodeIdle
    /\ FormatIdle

\* A tab function whose uploader holds a large file that was read and decoded.
large_upload_tab(tab) ==
    /\ pc = tab
    /\ \E n \in LargeSizes :
          Column(tab, show_upload(tab, Decoded([ok |-> TRUE, text |-> LargeText(n)],
                                               FALSE)))
    /\ pc' = IF tab = 5 THEN 0 ELSE tab + 1
    /\ UNCHANGED <<api_key, cache, built, selected_model, clicked, decVars, fmtVars>>

NextLargeUpload == \E tab \in Tabs : large_upload_tab(tab)

SpecLargeUpload == InitLargeUpload /\ [][NextLargeUpload]_vars

(***************************************************************************)
(* SpecClient: the methods of GroqClient called with any arguments         *)
(***************************************************************************)

\* The number of calls made on the client.
MaxCalls == 2

Methods ==
    {"generate_test_cases", "_generate_test_cases_for_chunk", "analyze_complexity",
     "_analyze_complexity_for_chunk", "optimize_process", "generate_documentation",
     "analyze_migration"}

\* The arguments a caller passes: a text (empty or not), a list of options
\* (empty or not), one of two models; the service answers with a text.
ClientCodes == {<<>>, Str(<<"<", "p", "/", ">">>)}

OptionLists == {<<>>, MultiselectOptions(1)}

ClientModels == {"llama-3.3-70b-versatile", "llama-3.1-8b-instant"}

ClientResponses == {[raises |-> FALSE, choices |-> <<Some(OK)>>]}

InitClient ==
    /\ api_key = "key-1"
    /\ cache = {"key-1"}
    /\ built = 1
    /\ selected_model = "llama-3.3-70b-versatile"
    /\ pc = 0
    /\ buttons = {}
    /\ clicked = "none"
    /\ screen = <<>>
    /\ calls = <<>>
    /\ handled = <<>>
    /\ DecodeIdle
    /\ FormatIdle

\* The record of a call: what the method sent, received and returned.
Called(resp, r) ==
    [op |-> r.requests[1].op, response |-> resp, requests |-> r.requests,
     result |-> r.result, error |-> r.error, raised |-> r.raised]

\* One call of the method by a caller that holds the client.
call_method(method) ==
    /\ Len(calls) < MaxCalls
    /\ \E code \in ClientCodes : \E options \in OptionLists :
       \E model \in ClientModels : \E resp \in ClientResponses :
          calls' = Append(calls, Called(resp,
              CASE method = "generate_test_cases" ->
                       generate_test_cases(code, options, model, resp)
                [] method = "_generate_test_cases_for_chunk" ->
                       generate_test_cases_for_chunk(code, options, model, resp)
                [] method = "analyze_complexity" ->
                       analyze_complexity(code, options, model, resp)
                [] method = "_analyze_complexity_for_chunk" ->
                       analyze_complexity_for_chunk(code, options, model, resp)
                [] method = "optimize_process" ->
                       optimize_process(code, options, model, resp)
                [] method = "generate_documentation" ->
                       generate_documentation(code, options, model, resp)
                [] method = "analyze_migration" ->
                       analyze_migration(code, options, model, resp)))
    /\ UNCHANGED <<api_key, cache, built, selected_model, pc, buttons, clicked, screen,
                   handled, decVars, fmtVars>>

NextClient == \E method \in Methods : call_method(method)

SpecClient == InitClient /\ [][NextClient]_vars

(***************************************************************************)
(* Properties                                                              *)
(***************************************************************************)

\* Every character of t is whitespace (t may be empty): t.strip() is "".
AllWhitespace(t) == \A i \in 1..Len(t) : IsSpace(t[i])

\* The positions of the page that show an element of one of the kinds for a tab.
Shown(tab, kinds) ==
    {j \in 1..Len(screen) : screen[j].tab = tab /\ screen[j].kind \in kinds}

\* The tab whose button branch calls the operation op.
TabOf(op) == CHOOSE tab \in Tabs : Operation(tab) = op

\* C1: in a re-execution where the action button of a tab was clicked and the
\* input is empty after trimming whitespace, or no option is selected, the tab
\* shows a validation message and its GroqClient operation is not called (so no
\* request is sent).
ValidationBlocksRequest ==
    \A i \in 1..Len(handled) :
        (AllWhitespace(handled[i].code_input) \/ handled[i].options = <<>>)
        => /\ Shown(handled[i].tab, {"error_empty_input", "error_no_option"}) # {}
           /\ \A k \in 1..Len(calls) : calls[k].op # Operation(handled[i].tab)

\* The migration button was clicked with options selected and an input of
\* whitespace only: the validation message is on the page and nothing was called.
WitnessValidationBlocksRequest ==
    /\ pc = 0
    /\ \E i \in 1..Len(handled) :
          /\ handled[i].tab = 5
          /\ handled[i].code_input = Str(<<" ", "\n">>)
          /\ handled[i].options # <<>>
    /\ Shown(5, {"error_empty_input"}) # {}
    /\ calls = <<>>

\* C2: when the completion call fails (the request raises, or the response is
\* malformed: an empty choices list), the operation displays an error and
\* returns None, and no exception leaves the operation or the handler.
FailureIsCaught ==
    \A k \in 1..Len(calls) :
        Raises(calls[k].response)
        => /\ calls[k].error
           /\ calls[k].result = None
           /\ ~calls[k].raised
           /\ Shown(TabOf(calls[k].op), {"error_api"}) # {}
           /\ Shown(TabOf(calls[k].op), {"error_exception"}) = {}

\* The documentation operation received a response with an empty choices list.
WitnessFailureIsCaught ==
    \E k \in 1..Len(calls) :
        /\ calls[k].op = "generate_documentation"
        /\ calls[k].response = [raises |-> FALSE, choices |-> <<>>]
        /\ calls[k].error
        /\ calls[k].result = None

\* C3: every invocation of a GroqClient operation sends exactly one request,
\* whether it succeeds or fails; a handler invokes its operation at most once.
ExactlyOneRequest ==
    /\ \A k \in 1..Len(calls) : Len(calls[k].requests) = 1
    /\ \A tab \in Tabs :
          Cardinality({k \in 1..Len(calls) : calls[k].op = Operation(tab)}) <= 1

\* An invocation whose request raised, and which sent that one request.
WitnessExactlyOneRequest ==
    \E k \in 1..Len(calls) :
        /\ calls[k].response.raises
        /\ calls[k].requests =
               <<Request(calls[k].op, Str(<<"<", "p", "/", ">">>),
                         MultiselectOptions(TabOf(calls[k].op)), "mixtral-8x7b-32768",
                         IF calls[k].op \in {"generate_test_cases",
                                             "generate_documentation"} THEN 3 ELSE 2,
                         4000)>>

\* C4: every invocation ends in one of two outcomes: a text is returned and the
\* client displayed no error, or None is returned and the client displayed an
\* error.
TwoOutcomes ==
    \A k \in 1..Len(calls) :
        \/ calls[k].result.some /\ ~calls[k].error
        \/ ~calls[k].result.some /\ calls[k].error

\* C5: when the request succeeds, the operation returns the content of the first
\* choice as received, the empty string included, with nothing trimmed,
\* reformatted or substituted.
ContentReturnedUnmodified ==
    \A k \in 1..Len(calls) :
        ~Raises(calls[k].response)
        => /\ calls[k].result = calls[k].response.choices[1]
           /\ ~calls[k].error
           /\ ~calls[k].raised

\* A content with whitespace at both ends came back as it was received.
WitnessContentReturnedUnmodified ==
    \E k \in 1..Len(calls) :
        /\ calls[k].response.choices = <<Some(Str(<<" ", "O", "K", "\n">>))>>
        /\ calls[k].result = Some(Str(<<" ", "O", "K", "\n">>))

\* C6: an error message of a handler is a validation error or follows an
\* exception raised while invoking the completion service: a call that raised
\* nothing and returned a text leaves no error or failure message on the page.
ErrorsOnlyFromValidationOrException ==
    \A k \in 1..Len(calls) :
        (~Raises(calls[k].response) /\ calls[k].response.choices[1].some)
        => Shown(TabOf(calls[k].op), ErrorKinds) = {}

\* A sequence of Unicode code points: what a Python str holds.
IsText(t) == DOMAIN t = 1..Len(t) /\ \A i \in 1..Len(t) : t[i] \in 0..1114111

\* C7: for every uploaded byte sequence the upload branch yields a string and
\* raises nothing; latin-1 is used only after UTF-8 was tried and failed.
DecodingNeverRaises ==
    dec_pc = "done"
    => /\ ~dec_out.raised
       /\ IsText(dec_out.code_input)
       /\ dec_out.fallback => ~decode_utf8(dec_bytes).ok

\* A byte that no encoding of UTF-8 contains was decoded by latin-1.
WitnessDecodingNeverRaises ==
    /\ dec_pc = "done"
    /\ dec_bytes = <<255>>
    /\ dec_out.fallback
    /\ ~dec_out.raised
    /\ dec_out.code_input = <<255>>

\* The UTF-8 encoding of one scalar value, and of a text.
Utf8Bytes(cp) ==
    IF cp < 128 THEN <<cp>>
    ELSE IF cp < 2048 THEN <<192 + (cp \div 64), 128 + (cp % 64)>>
    ELSE IF cp < 65536
    THEN <<224 + (cp \div 4096), 128 + ((cp \div 64) % 64), 128 + (cp % 64)>>
    ELSE <<240 + (cp \div 262144), 128 + ((cp \div 4096) % 64),
           128 + ((cp \div 64) % 64), 128 + (cp % 64)>>

Utf8Encode(t) == Concat([i \in 1..Len(t) |-> Utf8Bytes(t[i])])

\* The bytes are the UTF-8 encoding of some text: of b read as a shortest-form
\* encoding of scalar values that are not surrogates.
IsUtf8(b) ==
    /\ decode_utf8(b).ok
    /\ Utf8Encode(decode_utf8(b).text) = b
    /\ \A i \in 1..Len(decode_utf8(b).text) :
          decode_utf8(b).text[i] \notin 55296..57343

\* C8: the fallback is used if and only if the UTF-8 decoding fails; valid bytes
\* give their UTF-8 decoding, invalid bytes their latin-1 decoding (one character
\* per byte, the character numbered as the byte), and no error is shown.
FallbackIffPrimaryFails ==
    dec_pc = "done"
    => /\ dec_out.fallback <=> ~decode_utf8(dec_bytes).ok
       /\ ~dec_out.fallback
          => /\ IsUtf8(dec_bytes)
             /\ Utf8Encode(dec_out.code_input) = dec_bytes
       /\ dec_out.fallback
          => /\ Len(dec_out.code_input) = Len(dec_bytes)
             /\ \A i \in 1..Len(dec_bytes) : dec_out.code_input[i] = dec_bytes[i]
       /\ ~dec_out.error
       /\ ~dec_out.raised

\* The three bytes of the euro sign were decoded by UTF-8 to one character.
WitnessFallbackIffPrimaryFails ==
    /\ dec_pc = "done"
    /\ dec_bytes = <<226, 130, 172>>
    /\ ~dec_out.fallback
    /\ dec_out.code_input = <<8364>>

\* C9: the formatters are idempotent: for a non-empty text, formatting the
\* formatted text gives the formatted text again.
FormatterIdempotent ==
    (Len(fmt_hist) >= 3 /\ fmt_hist[1] # <<>>) => fmt_hist[3] = fmt_hist[2]

\* t holds three newlines in a row.
HasTripleNewline(t) ==
    \E i \in 1..(Len(t) - 2) :
        IsNewline(t[i]) /\ IsNewline(t[i + 1]) /\ IsNewline(t[i + 2])

\* C10: for a non-empty input, the output of format_test_cases and of
\* format_complexity_analysis holds no three consecutive newlines: every longer
\* run of blank lines is collapsed to one blank line, after the header and
\* numbered-section substitutions.
BlankLinesCollapsed ==
    \A k \in 2..Len(fmt_hist) :
        fmt_hist[k - 1] # <<>> => ~HasTripleNewline(fmt_hist[k])

\* A header followed by three blank lines: the header was rewritten and the
\* blank lines were collapsed to one.
WitnessBlankLinesCollapsed ==
    /\ Len(fmt_hist) >= 2
    /\ fmt_hist[1] = Str(<<"#", "a", "\n", "\n", "\n", "\n">>)
    /\ fmt_hist[2] = Str(<<"*", "*", "a", "*", "*", "\n", "\n">>)

\* The characters the substitutions add or drop: the marks of markdown and
\* whitespace.
IsMarkup(c) == IsSpace(c) \/ c \in {Ch("#"), Ch("*")} \/ <<c>> = Tick

\* The content of a text: its characters that are not markup.
Content(t) == SelectSeq(t, LAMBDA c : ~IsMarkup(c))

\* The literal stands somewhere in t.
Holds(t, lit, ic) == \E p \in 1..Len(t) : LitAt(t, p, lit, ic)

\* A text that none of the patterns can match: no line starts with "#" or with a
\* digit, the words of the score, complexity and risk patterns are absent, and
\* no three newlines stand in a row.
Plain(t) ==
    /\ \A p \in 1..Len(t) : AtLineStart(t, p) => ~(IsHash(t[p]) \/ IsDigit(t[p]))
    /\ ~Holds(t, Str(<<"s", "c", "o", "r", "e">>), TRUE)
    /\ ~Holds(t, Str(<<"c", "o", "m", "p", "l", "e", "x", "i", "t", "y">>), TRUE)
    /\ \A a \in 1..Len(RiskLevels) : ~Holds(t, RiskLevels[a], FALSE)
    /\ ~HasTripleNewline(t)

\* C11: when the input is non-empty, an option is selected and the client
\* returns a non-empty text r, the handler displays a success message and a
\* formatted text with the content of r; when no pattern of the formatter can
\* match r, the text displayed is r itself.
ResultDisplayed ==
    /\ \A i \in 1..Len(handled) :
          (~AllWhitespace(handled[i].code_input) /\ handled[i].options # <<>>)
          => \E k \in 1..Len(calls) : calls[k].op = Operation(handled[i].tab)
    /\ \A k \in 1..Len(calls) :
          Truthy(calls[k].result)
          => /\ Shown(TabOf(calls[k].op), {"success"}) # {}
             /\ Shown(TabOf(calls[k].op), {"markdown"}) # {}
             /\ \A j \in Shown(TabOf(calls[k].op), {"markdown"}) :
                   /\ Content(screen[j].text) = Content(calls[k].result.text)
                   /\ Plain(calls[k].result.text)
                      => screen[j].text = calls[k].result.text

\* The complexity tab displayed a numbered section rewritten as a header, and
\* the test case tab can display a plain text with its whitespace kept.
WitnessResultDisplayed ==
    \E k \in 1..Len(calls) :
        /\ calls[k].op = "analyze_complexity"
        /\ calls[k].result = Some(Str(<<"1", ".", "*", "*", "a", "*", "*">>))
        /\ \E j \in Shown(2, {"markdown"}) :
              screen[j].text = Str(<<"#", "#", "#", " ", "1", ".", " ", "a">>)

\* A plain text came back and was displayed as it is, whitespace included.
PlainResultDisplayed ==
    \E k \in 1..Len(calls) :
        /\ calls[k].op = "generate_test_cases"
        /\ calls[k].result = Some(Str(<<" ", "O", "K", "\n">>))
        /\ Plain(calls[k].result.text)
        /\ \E j \in Shown(1, {"markdown"}) : screen[j].text = calls[k].result.text

\* C12: while the credential is empty, a re-execution stops after the
\* missing-key error: no client is constructed, no tab is rendered, no action
\* button is there to be clicked and no request is issued.
EmptyCredentialStops ==
    /\ [](api_key = ""
          => /\ pc = 0
             /\ buttons = {}
             /\ calls = <<>>
             /\ handled = <<>>
             /\ "" \notin cache
             /\ \A j \in 1..Len(screen) : screen[j] = El(0, "error_missing_key", <<>>))
    /\ [][api_key' = "" => (cache' = cache /\ built' = built /\ clicked' = "none")]_vars

\* The credential was removed after a re-execution that had rendered the tabs:
\* the page now holds the missing-key error only.
WitnessEmptyCredentialStops ==
    /\ api_key = ""
    /\ cache # {}
    /\ Len(screen) = 2
    /\ buttons = {}

\* C13: over any sequence of re-executions a client is constructed at most once
\* per distinct credential: the first use constructs it, a later use of the
\* same credential constructs nothing, and another credential gets an instance
\* of its own while the earlier ones are kept.
ClientMemoized ==
    /\ [](built = Cardinality(cache))
    /\ [][/\ cache \subseteq cache'
          /\ api_key' \in cache => built' = built
          /\ (api_key' # "" /\ api_key' \notin cache)
             => (built' = built + 1 /\ cache' = cache \cup {api_key'})]_vars

\* Back on the first credential after a second one was used: two instances were
\* constructed in all, and both are held.
WitnessClientMemoized ==
    /\ pc = 1
    /\ api_key = "key-1"
    /\ clicked # "none"
    /\ cache = {"key-1", "key-2"}
    /\ built = 2

\* What a button branch displays for a result.
ResultKinds == {"success", "markdown", "button_copy", "code", "info_copy", "download_button"}

\* C14: nothing is stored between actions.  What a tab shows of a result is
\* there only in a re-execution its action button triggered, after a request
\* issued in that re-execution with the inputs and the model of that
\* re-execution; a result of an earlier re-execution is never on the page.
NothingStoredBetweenActions ==
    \A tab \in Tabs :
        Shown(tab, ResultKinds) # {}
        => /\ clicked = ActionButton(tab)
           /\ \E k \in 1..Len(calls) : \E i \in 1..Len(handled) :
                 /\ calls[k].op = Operation(tab)
                 /\ handled[i].tab = tab
                 /\ Truthy(calls[k].result)
                 /\ calls[k].requests[1].prompt.code = handled[i].code_input
                 /\ calls[k].requests[1].prompt.options = handled[i].options
                 /\ calls[k].requests[1].model = selected_model

\* The re-execution triggered by the copy button of the first tab has ended: the
\* result that came with that button is gone, and no request was issued.
WitnessNothingStoredBetweenActions ==
    /\ pc = 0
    /\ clicked = CopyButton(1)
    /\ calls = <<>>
    /\ \A tab \in Tabs : Shown(tab, ResultKinds) = {}
    /\ buttons = {ActionButton(tab) : tab \in Tabs}

\* C15: for each of the five actions a result passes through the formatting
\* step before it is displayed: the text displayed for a result is the output
\* of a formatter on that result.
ResultFormattedBeforeDisplay ==
    \A k \in 1..Len(calls) :
        Truthy(calls[k].result)
        => \A j \in Shown(TabOf(calls[k].op), {"markdown"}) :
              screen[j].text \in {format_test_cases(calls[k].result.text),
                                  format_complexity_analysis(calls[k].result.text)}

\* C16: no exception leaves the input column.  When reading an uploaded file
\* raises, the tab shows an error and goes on with an empty input: a click on
\* its action button in that re-execution gives the empty-input message and no
\* request.
UploadErrorIsContained ==
    \A tab \in Tabs :
        Shown(tab, {"error_read"}) # {}
        => /\ pc # tab
           /\ Shown(tab, {"info_file_loaded", "code_preview"}) = {}
           /\ \A i \in 1..Len(handled) :
                 handled[i].tab = tab
                 => /\ handled[i].code_input = <<>>
                    /\ Shown(tab, {"error_empty_input"}) # {}
                    /\ Shown(tab, ResultKinds \cup {"error_api", "error_failed",
                                                    "error_exception"}) = {}
                    /\ \A k \in 1..Len(calls) : calls[k].op # Operation(tab)

\* The upload of the migration tab could not be read and its button was clicked
\* with options selected: the read error and the empty-input message are shown.
WitnessUploadErrorIsContained ==
    /\ pc = 0
    /\ clicked = ActionButton(5)
    /\ Shown(5, {"error_read"}) # {}
    /\ Shown(5, {"error_empty_input"}) # {}
    /\ \E i \in 1..Len(handled) : handled[i].tab = 5 /\ handled[i].options # <<>>
    /\ calls = <<>>

\* The text c stands in t as one contiguous piece.
Contains(t, c) ==
    \E p \in 0..(Len(t) - Len(c)) : SubSeq(t, p + 1, p + Len(c)) = c

\* C17: the prompt of a request holds the input text as one contiguous piece,
\* neither trimmed nor cut; for an upload of more than 5000 characters the
\* preview on the page is its first 2000 characters and "...", while the whole
\* text is in the prompt.
InputForwardedVerbatim ==
    \A i \in 1..Len(handled) :
        /\ \A k \in 1..Len(calls) :
              calls[k].op = Operation(handled[i].tab)
              => /\ Contains(calls[k].requests[1].prompt.text, handled[i].code_input)
                 /\ Len(calls[k].requests[1].prompt.text)
                    = Len(handled[i].code_input) + Len(BeforeCode) + Len(AfterCode)
        /\ \A j \in Shown(handled[i].tab, {"code_preview"}) :
              screen[j].text =
                  IF Len(handled[i].code_input) > 5000
                  THEN SubSeq(handled[i].code_input, 1, 2000) \o Str(<<".", ".", ".">>)
                  ELSE handled[i].code_input
        /\ handled[i].tab <= 3
           => (Len(handled[i].code_input) > 5000
               <=> Shown(handled[i].tab, {"warning_large_file"}) # {})

\* An upload of 5001 characters in the test case tab: the preview has 2003
\* characters and the request carries all 5001.
WitnessInputForwardedVerbatim ==
    \E i \in 1..Len(handled) : \E k \in 1..Len(calls) :
        /\ handled[i].tab = 1
        /\ Len(handled[i].code_input) = 5001
        /\ calls[k].op = "generate_test_cases"
        /\ calls[k].requests[1].prompt.code = handled[i].code_input
        /\ Contains(calls[k].requests[1].prompt.text, handled[i].code_input)
        /\ \E j \in Shown(1, {"code_preview"}) : Len(screen[j].text) = 2003
        /\ Shown(1, {"warning_large_file"}) # {}

\* The temperature, in tenths, that the claim gives each operation.
StatedTemperature ==
    [op \in {"generate_test_cases", "generate_documentation"} |-> 3]
    @@ [op \in {"analyze_complexity", "optimize_process", "analyze_migration"} |-> 2]

\* C18: the temperature and the output limit of a request depend on the
\* operation alone, not on the text, the options or the model: 0.3 for
\* generate_test_cases and generate_documentation, 0.2 for analyze_complexity,
\* optimize_process and analyze_migration; every request has a temperature within
\* [0.2, 0.3] and an output limit within [3000, 4000].
SamplingFixedPerOperation ==
    /\ \A k \in 1..Len(calls) : \A r \in 1..Len(calls[k].requests) :
          /\ calls[k].requests[r].temperature \in 2..3
          /\ calls[k].requests[r].max_tokens \in 3000..4000
          /\ calls[k].op \in DOMAIN StatedTemperature
             => calls[k].requests[r].temperature = StatedTemperature[calls[k].op]
    /\ \A k1 \in 1..Len(calls) : \A k2 \in 1..Len(calls) :
          calls[k1].op = calls[k2].op
          => /\ calls[k1].requests[1].temperature = calls[k2].requests[1].temperature
             /\ calls[k1].requests[1].max_tokens = calls[k2].requests[1].max_tokens

\* Two calls of generate_documentation that differ in the text, the options
\* and the model, both at 0.3 and 4000.
WitnessSamplingFixedPerOperation ==
    /\ Len(calls) = 2
    /\ calls[1].op = "generate_documentation"
    /\ calls[2].op = "generate_documentation"
    /\ calls[1].requests[1].model # calls[2].requests[1].model
    /\ calls[1].requests[1].prompt.code # calls[2].requests[1].prompt.code
    /\ calls[1].requests[1].prompt.options # calls[2].requests[1].prompt.options
    /\ calls[2].requests[1].temperature = 3
    /\ calls[2].requests[1].max_tokens = 4000

\* The file names the four formats give.
StatedFileName(doc_format) ==
    CASE doc_format = Str(<<"M", "a", "r", "k", "d", "o", "w", "n">>) ->
             Str(<<"t", "i", "b", "c", "o", "_", "d", "o", "c", "u", "m", "e", "n", "t",
                   "a", "t", "i", "o", "n", ".", "m", "a", "r", "k", "d", "o", "w", "n">>)
      [] doc_format = Str(<<"H", "T", "M", "L">>) ->
             Str(<<"t", "i", "b", "c", "o", "_", "d", "o", "c", "u", "m", "e", "n", "t",
                   "a", "t", "i", "o", "n", ".", "h", "t", "m", "l">>)
      [] doc_format = Str(<<"P", "l", "a", "i", "n", " ", "T", "e", "x", "t">>) ->
             Str(<<"t", "i", "b", "c", "o", "_", "d", "o", "c", "u", "m", "e", "n", "t",
                   "a", "t", "i", "o", "n", ".", "p", "l", "a", "i", "n", " ", "t", "e",
                   "x", "t">>)
      [] doc_format = Str(<<"C", "o", "n", "f", "l", "u", "e", "n", "c", "e">>) ->
             Str(<<"t", "i", "b", "c", "o", "_", "d", "o", "c", "u", "m", "e", "n", "t",
                   "a", "t", "i", "o", "n", ".", "c", "o", "n", "f", "l", "u", "e", "n",
                   "c", "e">>)

\* C19: a download is offered by the documentation tab only, and only after a
\* result that is not absent; its data is the text the client returned, and its
\* file name is "tibco_documentation." followed by the chosen format in lower
\* case, for each of Markdown, HTML, Plain Text and Confluence.
DownloadOnlyForDocumentation ==
    \A j \in 1..Len(screen) :
        screen[j].kind = "download_button"
        => /\ screen[j].tab = 4
           /\ \E k \in 1..Len(calls) :
                 /\ calls[k].op = "generate_documentation"
                 /\ calls[k].result # None
                 /\ ~calls[k].error
                 /\ screen[j].text = calls[k].result.text
                 /\ screen[j].text = calls[k].response.choices[1].text
           /\ \E i \in 1..Len(handled) :
                 /\ handled[i].tab = 4
                 /\ handled[i].doc_format \in doc_formats
                 /\ screen[j].name = StatedFileName(handled[i].doc_format)

\* The documentation tab with the format "Plain Text" and a result that starts
\* and ends with whitespace: the download holds the result as returned, under
\* the name "tibco_documentation.plain text".
WitnessDownloadOnlyForDocumentation ==
    \E j \in 1..Len(screen) : \E i \in 1..Len(handled) :
        /\ screen[j].kind = "download_button"
        /\ screen[j].text = Str(<<" ", "O", "K", "\n">>)
        /\ handled[i].tab = 4
        /\ handled[i].doc_format = Str(<<"P", "l", "a", "i", "n", " ", "T", "e", "x", "t">>)
        /\ Len(screen[j].name) = 30

\* The five operations that take the whole input.
WholeInputOperations ==
    {"generate_test_cases", "analyze_complexity", "optimize_process",
     "generate_documentation", "analyze_migration"}

\* C20: no interaction with the page calls a chunk helper: every request made
\* during a re-execution is the request of one of the five whole-input
\* operations, made for the tab whose button was clicked, and it carries the
\* whole input of that tab in one piece (no splitting, no batching).
ChunkHelpersUnused ==
    /\ Len(calls) <= Len(handled)
    /\ Len(calls) <= 1
    /\ \A k \in 1..Len(calls) :
          /\ Len(calls[k].requests) = 1
          /\ calls[k].requests[1].op \in WholeInputOperations
          /\ calls[k].requests[1].op
                 \notin {"_generate_test_cases_for_chunk", "_analyze_complexity_for_chunk"}
          /\ calls[k].requests[1].prompt.template = calls[k].requests[1].op
          /\ \E i \in 1..Len(handled) :
                /\ calls[k].requests[1].op = Operation(handled[i].tab)
                /\ calls[k].requests[1].prompt.code = handled[i].code_input
                /\ calls[k].requests[1].prompt.text
                       = BeforeCode \o handled[i].code_input \o AfterCode

\* The complexity tab, one of the two whose operation has a chunk helper,
\* clicked with an input that passes validation: one request, made by the
\* whole-input operation.
WitnessChunkHelpersUnused ==
    /\ Len(calls) = 1
    /\ Len(handled) = 1
    /\ handled[1].tab = 2
    /\ calls[1].requests[1].op = "analyze_complexity"
    /\ calls[1].requests[1].prompt.code = Str(<<" ", "x", " ">>)
    /\ pc = 0

\* C21: a re-execution of the page issues at most one request over the five
\* tabs: at most one action button reads as clicked, the handler of that tab
\* makes one call, and a validation failure returns from its tab only, the
\* tabs after it being rendered as in any other re-execution.
OneRequestPerReexecution ==
    /\ [](/\ Len(handled) <= 1
          /\ Len(calls) <= Len(handled)
          /\ \A k \in 1..Len(calls) : Len(calls[k].requests) = 1
          /\ \A i \in 1..Len(handled) : clicked = ActionButton(handled[i].tab)
          /\ \A j \in 1..Len(screen) :
                screen[j].kind \in {"error_empty_input", "error_no_option"}
                => /\ calls = <<>>
                   /\ \E i \in 1..Len(handled) : handled[i].tab = screen[j].tab
          /\ pc \in Tabs => \A t \in 1..(pc - 1) : ActionButton(t) \in buttons)
    /\ [][\A tab \in Tabs :
              pc = tab => /\ pc' = IF tab = 5 THEN 0 ELSE tab + 1
                          /\ ActionButton(tab) \in buttons'
                          /\ Len(calls') <= Len(calls) + 1]_vars

\* The complexity tab was clicked with nothing selected: its validation message
\* is on the page, no request was made, and the three tabs after it were
\* rendered all the same.
WitnessOneRequestPerReexecution ==
    /\ pc = 0
    /\ Len(handled) = 1
    /\ handled[1].tab = 2
    /\ Shown(2, ValidationKinds) # {}
    /\ calls = <<>>
    /\ {ActionButton(3), ActionButton(4), ActionButton(5)} \subseteq buttons

\* C22: in the test case tab and the complexity tab the copy action is
\* reachable: the re-execution that a click on the copy button triggers shows
\* the result, as the client returned it, in a code block of that tab.
CopyClickShowsResult ==
    \A tab \in {1, 2} :
        pc = 0 /\ clicked = CopyButton(tab) => Shown(tab, {"code"}) # {}

\* What holds instead: no page ever shows the code block or the note that
\* follows it, the copy button being read inside the branch of a button that is
\* not clicked in that re-execution.
CodeBlockNeverShown ==
    \A j \in 1..Len(screen) : screen[j].kind \notin {"code", "info_copy"}

\* C23: in every handler the empty-input check comes before the option check
\* and each returns at once: a click shows at most one validation message, which
\* is the empty-input message whenever the trimmed input is empty (options
\* selected or not) and the option message only for a non-empty input with no
\* option; nothing of the handler follows the message.
InputCheckedBeforeOptions ==
    \A i \in 1..Len(handled) :
        /\ Cardinality(Shown(handled[i].tab, {"error_empty_input", "error_no_option"})) <= 1
        /\ AllWhitespace(handled[i].code_input)
           => /\ Cardinality(Shown(handled[i].tab, {"error_empty_input"})) = 1
              /\ Shown(handled[i].tab, {"error_no_option"}) = {}
        /\ (~AllWhitespace(handled[i].code_input) /\ handled[i].options = <<>>)
           => /\ Cardinality(Shown(handled[i].tab, {"error_no_option"})) = 1
              /\ Shown(handled[i].tab, {"error_empty_input"}) = {}
        /\ \A j \in Shown(handled[i].tab, {"error_empty_input", "error_no_option"}) :
              /\ \A later \in (j + 1)..Len(screen) : screen[later].tab # handled[i].tab
              /\ calls = <<>>

\* The optimizer button clicked with an input of whitespace only and nothing
\* selected: both checks would fail, and the page holds the empty-input message
\* alone.
WitnessInputCheckedBeforeOptions ==
    \E i \in 1..Len(handled) :
        /\ handled[i].tab = 3
        /\ handled[i].code_input = Str(<<" ", "\n">>)
        /\ handled[i].options = <<>>
        /\ Cardinality(Shown(3, {"error_empty_input"})) = 1
        /\ Shown(3, {"error_no_option"}) = {}

====
